---- MODULE Spec2Model ----
\* The L2 engine API of eth/catalyst/l2_api.go: AssembleL2Block, ValidateL2Block and
\* NewL2Block over the chain head and the map of verified execution results.
EXTENDS Integers, Sequences, FiniteSets, TLC

VARIABLES
    head,       \* the block BlockChain().CurrentBlock() / CurrentHeader() returns
    verified,   \* api.verified: block hash -> executionResult
    last,       \* the call being answered: arguments, locals, collaborator calls, result
    round,      \* what ValidateL2Block / AssembleL2Block accepted since the last successful commit
    procs,      \* concurrent callers: where each one is in its call, and its locals
    lastWrite,  \* the latest store write of a concurrent call: the head checked, the head found
    commitLog   \* the hash of the head each successful concurrent commit had checked

vars == <<head, verified, last, round, procs, lastWrite, commitLog>>

----------------------------------------------------------------------------
\* Bounds of the model.

MaxHeight == 1      \* the store accepts blocks up to this number
MaxTxs == 2         \* longest transaction list of a request
NumRuns == 2        \* distinguishable executor runs (identity of a StateDB / receipts)
NumProcs == 2       \* concurrent callers of the API
MaxCached == 2      \* entries the map is let grow to (the code sets no limit)

----------------------------------------------------------------------------
\* Values.

ErrNil == "nil"
ErrDiscontinuous == "cannot assemble block with discontinuous block number"
ErrWrongParent == "wrong parent hash"
ErrTxNotValid == "transaction is not valid"
ErrDecode == "invalid transaction"
ErrVerifyHeader == "failed to verify header"
ErrTxCount == "invalid tx count"
ErrValidateBody == "error validating body"
ErrExecutor == "executor error"
ErrStore == "store error"

ZeroHash == <<>>
EmptyBLS == <<>>
BLSDatas == {EmptyBLS, <<1>>}

Miners == {"miner"}
Timestamps == {100}
GasLimits == {30}
GasUseds == {21}
BaseFees == {7}
Extras == {<<>>, <<1>>}
Roots == {"root"}
ReceiptRoots == {"receiptRoot"}
Blooms == {<<>>}

\* Encoded transactions: a well-formed envelope of transaction 1, and junk bytes.
RawTxs == {<<"enc", 1>>, <<"bad", 0>>}
TxLists == UNION {[1 .. n -> RawTxs] : n \in 0 .. MaxTxs}

\* types.Transaction.UnmarshalBinary / MarshalBinary
UnmarshalBinary(b) ==
    IF b[1] = "enc" THEN [ok |-> TRUE, tx |-> b[2]] ELSE [ok |-> FALSE, tx |-> 0]

MarshalBinary(tx) == <<"enc", tx>>

Min(S) == CHOOSE x \in S : \A y \in S : x <= y

BadIndexes(enc) == {i \in 1 .. Len(enc) : ~UnmarshalBinary(enc[i]).ok}

\* A decode loop that counts the transactions from one in its error
DecodeLoopOneBased(enc) ==
    IF BadIndexes(enc) = {}
    THEN [err |-> ErrNil, index |-> -1,
          txs |-> [i \in 1 .. Len(enc) |-> UnmarshalBinary(enc[i]).tx]]
    ELSE [err |-> ErrTxNotValid, index |-> Min(BadIndexes(enc)), txs |-> <<>>]

\* The decode loop of AssembleL2Block; index is the Go (0-based) index of the first
\* transaction that fails to decode.
DecodeLoop(enc) ==
    IF BadIndexes(enc) = {}
    THEN [err |-> ErrNil, index |-> -1,
          txs |-> [i \in 1 .. Len(enc) |-> UnmarshalBinary(enc[i]).tx]]
    ELSE [err |-> ErrTxNotValid, index |-> Min(BadIndexes(enc)) - 1, txs |-> <<>>]

\* decodeTransactions / encodeTransactions of the catalyst package
decodeTransactions(enc) ==
    IF BadIndexes(enc) = {}
    THEN [err |-> ErrNil, index |-> -1,
          txs |-> [i \in 1 .. Len(enc) |-> UnmarshalBinary(enc[i]).tx]]
    ELSE [err |-> ErrDecode, index |-> Min(BadIndexes(enc)) - 1, txs |-> <<>>]

encodeTransactions(txs) == [i \in 1 .. Len(txs) |-> MarshalBinary(txs[i])]

\* types.DeriveSha over the decoded transactions, and the root of the empty list
DeriveSha(txs) == <<"txroot", txs>>
EmptyRootHash == DeriveSha(<<>>)

\* Scroll.IsValidTxCount: count <= MaxTxPerBlock
MaxTxPerBlock == 1
IsValidTxCount(count) == count <= MaxTxPerBlock

\* Engine().Prepare: fills the engine's header fields before the header is hashed
Prepare(header) == [header EXCEPT !.Difficulty = 1]

\* Header.Hash: the identity of a block, a function of every header field
Hash(header) ==
    <<header.ParentHash, header.Number, header.GasUsed, header.GasLimit, header.Time,
      header.Coinbase, header.Extra, header.BLSData, header.BaseFee, header.Difficulty,
      header.TxHash, header.ReceiptHash, header.Root, header.Bloom>>

GenesisHeader ==
    [ParentHash |-> ZeroHash, Number |-> 0, GasUsed |-> 0, GasLimit |-> 30, Time |-> 0,
     Coinbase |-> "miner", Extra |-> <<>>, BLSData |-> EmptyBLS, BaseFee |-> 7,
     Difficulty |-> 1, TxHash |-> EmptyRootHash, ReceiptHash |-> "receiptRoot",
     Root |-> "root", Bloom |-> <<>>]

GenesisBlock == [header |-> GenesisHeader, txs |-> <<>>]

\* executionResult of one executor run
ExecResult(block, run) ==
    [block |-> block, state |-> <<"state", run>>, receipts |-> <<"receipts", run>>,
     procTime |-> run]

\* api.verified[k] = v
Put(m, k, v) == [x \in DOMAIN m \cup {k} |-> IF x = k THEN v ELSE m[x]]

\* make(map[common.Hash]executionResult)
EmptyMap == [x \in {} |-> ExecResult(GenesisBlock, 1)]

----------------------------------------------------------------------------
\* Inputs of the calls, drawn relative to the current head.

ParentHashes(h) == {Hash(h.header), h.header.ParentHash}
Numbers(h) == {h.header.Number, h.header.Number + 1, h.header.Number + 2}

Descriptors(h) ==
    [ParentHash : ParentHashes(h), Number : Numbers(h), Miner : Miners,
     Timestamp : Timestamps, GasLimit : GasLimits, BaseFee : BaseFees,
     Transactions : TxLists, StateRoot : Roots, GasUsed : GasUseds,
     ReceiptRoot : ReceiptRoots, LogsBloom : Blooms, Extra : Extras]

\* What the collaborators answer during one call: the engine's header verification,
\* the body validator, the executor (which run it is, and how many of the offered
\* transactions the miner takes), the store, the clock. A call returns at the first
\* collaborator that fails, so at most one of them fails in an answer.
QuietEnv ==
    [engineOk |-> TRUE, bodyOk |-> TRUE, procOk |-> TRUE, sealOk |-> TRUE,
     writeOk |-> TRUE, run |-> 1, now |-> 100, included |-> MaxTxPerBlock,
     extra |-> <<>>]

Runs == 1 .. NumRuns

\* Extra data the miner may put in the header it seals
SealExtras == {<<>>, <<1>>}

AssembleEnvs ==
    {[QuietEnv EXCEPT !.sealOk = FALSE]}
        \cup {[QuietEnv EXCEPT !.extra = x] : x \in SealExtras}
        \cup {[QuietEnv EXCEPT !.run = r, !.included = k, !.now = t] :
                  r \in Runs, k \in 0 .. MaxTxPerBlock, t \in Timestamps}

ValidateEnvs ==
    {[QuietEnv EXCEPT !.engineOk = FALSE], [QuietEnv EXCEPT !.bodyOk = FALSE],
     [QuietEnv EXCEPT !.procOk = FALSE]}
        \cup {[QuietEnv EXCEPT !.run = r] : r \in Runs}

\* The store takes blocks numbered up to MaxHeight and fails beyond.
WriteAnswers(number) == IF number <= MaxHeight THEN BOOLEAN ELSE {FALSE}

NewEnvs(number) ==
    {[QuietEnv EXCEPT !.engineOk = FALSE, !.writeOk = FALSE],
     [QuietEnv EXCEPT !.procOk = FALSE, !.writeOk = FALSE]}
        \cup {[QuietEnv EXCEPT !.bodyOk = FALSE, !.writeOk = w] :
                  w \in WriteAnswers(number) \ {FALSE}}
        \cup {[QuietEnv EXCEPT !.run = r, !.writeOk = w] :
                  r \in Runs, w \in WriteAnswers(number)}

----------------------------------------------------------------------------
\* Collaborators.

\* Miner().GetSealingBlockAndState(parent.Hash(), time.Now(), transactions): a sealing
\* block on top of parent holding the offered transactions the miner takes (a prefix
\* within the transaction-count policy), and its execution result.
GetSealingBlockAndState(parent, timestamp, transactions, env) ==
    LET taken == SubSeq(transactions, 1, IF env.included < Len(transactions)
                                         THEN env.included ELSE Len(transactions))
        header ==
            Prepare([ParentHash |-> Hash(parent.header),
                     Number |-> parent.header.Number + 1,
                     GasUsed |-> 21, GasLimit |-> 30, Time |-> timestamp,
                     Coinbase |-> "miner", Extra |-> env.extra, BLSData |-> EmptyBLS,
                     BaseFee |-> 7, Difficulty |-> 0,
                     TxHash |-> DeriveSha(taken),
                     ReceiptHash |-> "receiptRoot", Root |-> "root", Bloom |-> <<>>])
        block == [header |-> header, txs |-> taken]
    IN  IF env.sealOk
        THEN [err |-> ErrNil, block |-> block, result |-> ExecResult(block, env.run)]
        ELSE [err |-> ErrExecutor, block |-> block, result |-> ExecResult(block, env.run)]

\* BlockChain().ProcessBlock(block, parent.Header())
ProcessBlock(block, env) ==
    IF env.procOk
    THEN [err |-> ErrNil, result |-> ExecResult(block, env.run)]
    ELSE [err |-> ErrExecutor, result |-> ExecResult(block, env.run)]

\* BlockChain().Validator().ValidateBody(block)
ValidateBody(block, env) == IF env.bodyOk THEN ErrNil ELSE ErrValidateBody

\* Engine().VerifyHeader(chain, header, false)
VerifyHeader(header, env) == IF env.engineOk THEN ErrNil ELSE ErrVerifyHeader

\* BlockChain().WriteStateAndSetHead(block, receipts, state, procTime): on success the
\* block is the new head.
WriteStateAndSetHead(h, block, env) ==
    IF env.writeOk THEN [err |-> ErrNil, head |-> block] ELSE [err |-> ErrStore, head |-> h]

----------------------------------------------------------------------------
\* Helpers of the API.

\* l2ConsensusAPI.paramsToBlock
paramsToBlock(params, blsData) ==
    LET header ==
            Prepare([ParentHash |-> params.ParentHash, Number |-> params.Number,
                     GasUsed |-> params.GasUsed, GasLimit |-> params.GasLimit,
                     Time |-> params.Timestamp, Coinbase |-> params.Miner,
                     Extra |-> params.Extra, BLSData |-> blsData,
                     BaseFee |-> params.BaseFee, Difficulty |-> 0,
                     TxHash |-> ZeroHash, ReceiptHash |-> "", Root |-> "",
                     Bloom |-> <<>>])
        dec == decodeTransactions(params.Transactions)
        full == [header EXCEPT !.TxHash = DeriveSha(dec.txs),
                               !.ReceiptHash = params.ReceiptRoot,
                               !.Root = params.StateRoot,
                               !.Bloom = params.LogsBloom]
    IN  [err |-> dec.err, index |-> dec.index,
         block |-> [header |-> full, txs |-> dec.txs]]

\* A VerifyBlock that leaves the transaction-count policy out
VerifyBlockHeaderOnly(block, env) == VerifyHeader(block.header, env)

\* l2ConsensusAPI.VerifyBlock
VerifyBlock(block, env) ==
    IF VerifyHeader(block.header, env) # ErrNil THEN VerifyHeader(block.header, env)
    ELSE IF ~IsValidTxCount(Len(block.txs)) THEN ErrTxCount
    ELSE ErrNil

\* A returned ExecutableL2Data that leaves the state root out
BlockToParamsNoRoot(block) ==
    [ParentHash |-> block.header.ParentHash, Number |-> block.header.Number,
     Miner |-> block.header.Coinbase, Timestamp |-> block.header.Time,
     GasLimit |-> block.header.GasLimit, BaseFee |-> block.header.BaseFee,
     Transactions |-> encodeTransactions(block.txs),
     StateRoot |-> "", GasUsed |-> block.header.GasUsed,
     ReceiptRoot |-> block.header.ReceiptHash, LogsBloom |-> block.header.Bloom,
     Extra |-> <<>>]

\* The ExecutableL2Data AssembleL2Block returns for a block (Extra is not set)
BlockToParams(block) ==
    [ParentHash |-> block.header.ParentHash, Number |-> block.header.Number,
     Miner |-> block.header.Coinbase, Timestamp |-> block.header.Time,
     GasLimit |-> block.header.GasLimit, BaseFee |-> block.header.BaseFee,
     Transactions |-> encodeTransactions(block.txs),
     StateRoot |-> block.header.Root, GasUsed |-> block.header.GasUsed,
     ReceiptRoot |-> block.header.ReceiptHash, LogsBloom |-> block.header.Bloom,
     Extra |-> <<>>]

----------------------------------------------------------------------------
\* The record of a call: its arguments, the head (parent) and the map (before) it
\* found, and what it did. params, resp, data, produced and written hold zero or one
\* element: the descriptor passed, the GenericResponse, the ExecutableL2Data returned,
\* the executionResult the executor produced, the arguments of WriteStateAndSetHead,
\* the block GetSealingBlockAndState returned, and for NewL2Block what the
\* collaborators answer at the time of the call (env).

NoCall ==
    [op |-> "none", number |-> 0, txs |-> <<>>, params |-> <<>>, bls |-> EmptyBLS,
     parent |-> GenesisBlock, before |-> EmptyMap, round |-> <<>>,
     err |-> ErrNil, errIndex |-> -1, resp |-> <<>>, data |-> <<>>,
     hit |-> FALSE, verifyErr |-> ErrNil, bodyErr |-> ErrNil, execErr |-> ErrNil,
     sealCalls |-> 0, processCalls |-> 0, writeCalls |-> 0, produced |-> <<>>,
     written |-> <<>>, sealed |-> <<>>, env |-> <<>>]

Begin(op, h, v) == [NoCall EXCEPT !.op = op, !.parent = h, !.before = v]

Outcome(h, v, call) == [head |-> h, verified |-> v, call |-> call]

\* The store call WriteStateAndSetHead(block, receipts, state, procTime)
StoreArgs(block, res) ==
    [block |-> block, receipts |-> res.receipts, state |-> res.state,
     procTime |-> res.procTime]

\* A number check that only rejects numbers beyond the next one
DiscontinuousOnlyAhead(number, parent) == number > parent.header.Number + 1

\* A number check that only rejects numbers at or below the head's
DiscontinuousOnlyStale(number, parent) == number < parent.header.Number + 1

\* params.Number != expectedBlockNumber
Discontinuous(number, parent) == number # parent.header.Number + 1

\* A parent check that is left out
WrongParentNever(params, parent) == FALSE

\* A parent check against the hash of the head's parent instead of the head's
WrongParentOfParent(params, parent) == params.ParentHash # parent.header.ParentHash

\* params.ParentHash != parent.Hash()
WrongParent(params, parent) == params.ParentHash # Hash(parent.header)

----------------------------------------------------------------------------
\* AssembleL2Block(params AssembleL2BlockParams)

\* An AssembleL2Block that stores and returns the sealed block even when it is empty
AssembleSealedKeepsEmpty(h, v, seal, call) ==
    Outcome(h, Put(v, Hash(seal.block.header), seal.result),
            [call EXCEPT !.sealCalls = 1, !.sealed = <<seal.block>>,
                         !.produced = <<seal.result>>,
                         !.data = <<BlockToParams(seal.block)>>])

\* The miner returned a block: nothing if it holds no transaction, else store the
\* result and return the descriptor.
AssembleSealed(h, v, seal, call) ==
    IF seal.block.header.TxHash = EmptyRootHash
    THEN Outcome(h, v, [call EXCEPT !.sealCalls = 1, !.sealed = <<seal.block>>])
    ELSE Outcome(h, Put(v, Hash(seal.block.header), seal.result),
                 [call EXCEPT !.sealCalls = 1, !.sealed = <<seal.block>>,
                              !.produced = <<seal.result>>,
                              !.data = <<BlockToParams(seal.block)>>])

AssembleOutcome(h, v, number, transactions, env) ==
    LET parent == h
        call == [Begin("AssembleL2Block", h, v) EXCEPT !.number = number,
                                                       !.txs = transactions]
        dec == DecodeLoop(transactions)
        seal == GetSealingBlockAndState(parent, env.now, dec.txs, env)
    IN  IF Discontinuous(number, parent)
        THEN Outcome(h, v, [call EXCEPT !.err = ErrDiscontinuous])
        ELSE IF dec.err # ErrNil
        THEN Outcome(h, v, [call EXCEPT !.err = dec.err, !.errIndex = dec.index])
        ELSE IF seal.err # ErrNil
        THEN Outcome(h, v, [call EXCEPT !.err = seal.err, !.execErr = seal.err,
                                        !.sealCalls = 1])
        ELSE AssembleSealed(h, v, seal, call)

----------------------------------------------------------------------------
\* ValidateL2Block(params ExecutableL2Data)

\* A ValidateL2Block that executes the block and does not store the result
ValidateMissNoStore(h, v, block, env, call) ==
    LET verr == VerifyBlock(block, env)
        berr == ValidateBody(block, env)
        proc == ProcessBlock(block, env)
    IN  IF verr # ErrNil
        THEN Outcome(h, v, [call EXCEPT !.verifyErr = verr, !.resp = <<FALSE>>])
        ELSE IF berr # ErrNil
        THEN Outcome(h, v, [call EXCEPT !.bodyErr = berr, !.resp = <<FALSE>>])
        ELSE IF proc.err # ErrNil
        THEN Outcome(h, v, [call EXCEPT !.execErr = proc.err, !.processCalls = 1,
                                        !.resp = <<FALSE>>])
        ELSE Outcome(h, v,
                     [call EXCEPT !.processCalls = 1, !.produced = <<proc.result>>,
                                  !.resp = <<TRUE>>])

\* A ValidateL2Block that also writes the block it accepted and makes it the head
ValidateMissCommits(h, v, block, env, call) ==
    LET o == ValidateMissNoStore(h, v, block, env, call)
    IN  IF o.call.resp = <<TRUE>>
        THEN Outcome(block, Put(v, Hash(block.header), o.call.produced[1]),
                     [o.call EXCEPT !.writeCalls = 1])
        ELSE o

\* The block is not in api.verified: verify, validate the body, execute, store.
ValidateMiss(h, v, block, env, call) ==
    LET verr == VerifyBlock(block, env)
        berr == ValidateBody(block, env)
        proc == ProcessBlock(block, env)
    IN  IF verr # ErrNil
        THEN Outcome(h, v, [call EXCEPT !.verifyErr = verr, !.resp = <<FALSE>>])
        ELSE IF berr # ErrNil
        THEN Outcome(h, v, [call EXCEPT !.bodyErr = berr, !.resp = <<FALSE>>])
        ELSE IF proc.err # ErrNil
        THEN Outcome(h, v, [call EXCEPT !.execErr = proc.err, !.processCalls = 1,
                                        !.resp = <<FALSE>>])
        ELSE Outcome(h, Put(v, Hash(block.header), proc.result),
                     [call EXCEPT !.processCalls = 1, !.produced = <<proc.result>>,
                                  !.resp = <<TRUE>>])

\* A ValidateL2Block that decodes the transactions before its two checks
ValidateOutcomeDecodeFirst(h, v, params, env) ==
    LET parent == h
        call == [Begin("ValidateL2Block", h, v) EXCEPT !.params = <<params>>]
        pb == paramsToBlock(params, EmptyBLS)
    IN  IF pb.err # ErrNil
        THEN Outcome(h, v, [call EXCEPT !.err = pb.err, !.errIndex = pb.index])
        ELSE IF Discontinuous(params.Number, parent)
        THEN Outcome(h, v, [call EXCEPT !.err = ErrDiscontinuous])
        ELSE IF WrongParent(params, parent)
        THEN Outcome(h, v, [call EXCEPT !.err = ErrWrongParent])
        ELSE IF Hash(pb.block.header) \in DOMAIN v
        THEN Outcome(h, v, [call EXCEPT !.hit = TRUE, !.resp = <<TRUE>>])
        ELSE ValidateMiss(h, v, pb.block, env, call)

ValidateOutcome(h, v, params, env) ==
    LET parent == h
        call == [Begin("ValidateL2Block", h, v) EXCEPT !.params = <<params>>]
        pb == paramsToBlock(params, EmptyBLS)
    IN  IF Discontinuous(params.Number, parent)
        THEN Outcome(h, v, [call EXCEPT !.err = ErrDiscontinuous])
        ELSE IF WrongParent(params, parent)
        THEN Outcome(h, v, [call EXCEPT !.err = ErrWrongParent])
        ELSE IF pb.err # ErrNil
        THEN Outcome(h, v, [call EXCEPT !.err = pb.err, !.errIndex = pb.index])
        ELSE IF Hash(pb.block.header) \in DOMAIN v
        THEN Outcome(h, v, [call EXCEPT !.hit = TRUE, !.resp = <<TRUE>>])
        ELSE ValidateMiss(h, v, pb.block, env, call)

----------------------------------------------------------------------------
\* NewL2Block(params ExecutableL2Data, bls types.BLSData)

\* A hit path that executes the block again and writes the new result
NewHitReexecute(h, v, block, bas, env, call) ==
    LET proc == ProcessBlock(block, env)
        w == WriteStateAndSetHead(h, block, env)
    IN  Outcome(w.head, IF w.err = ErrNil THEN EmptyMap ELSE v,
                [call EXCEPT !.hit = TRUE, !.processCalls = 1,
                             !.produced = <<proc.result>>, !.writeCalls = 1,
                             !.written = <<StoreArgs(block, proc.result)>>,
                             !.err = w.err])

\* A hit path that clears the map whatever the store answers
NewHitAlwaysClear(h, v, block, bas, env, call) ==
    LET w == WriteStateAndSetHead(h, block, env)
    IN  Outcome(w.head, EmptyMap,
                [call EXCEPT !.hit = TRUE, !.writeCalls = 1,
                             !.written = <<StoreArgs(block, bas)>>, !.err = w.err])

\* The block is in api.verified: write the stored result, clear the map on success.
NewHit(h, v, block, bas, env, call) ==
    LET w == WriteStateAndSetHead(h, block, env)
    IN  Outcome(w.head, IF w.err = ErrNil THEN EmptyMap ELSE v,
                [call EXCEPT !.hit = TRUE, !.writeCalls = 1,
                             !.written = <<StoreArgs(block, bas)>>, !.err = w.err])

\* A miss path that writes the block although the executor failed
NewMissIgnoreExecutor(h, v, block, env, call) ==
    LET verr == VerifyBlock(block, env)
        proc == ProcessBlock(block, env)
        w == WriteStateAndSetHead(h, block, env)
    IN  IF verr # ErrNil
        THEN Outcome(h, v, [call EXCEPT !.verifyErr = verr, !.err = verr])
        ELSE Outcome(w.head, v,
                     [call EXCEPT !.execErr = proc.err, !.processCalls = 1,
                                  !.produced = <<proc.result>>, !.writeCalls = 1,
                                  !.written = <<StoreArgs(block, proc.result)>>,
                                  !.err = w.err])

\* A miss path that stores the result it wrote in the map
NewMissStores(h, v, block, env, call) ==
    LET verr == VerifyBlock(block, env)
        proc == ProcessBlock(block, env)
        w == WriteStateAndSetHead(h, block, env)
    IN  IF verr # ErrNil
        THEN Outcome(h, v, [call EXCEPT !.verifyErr = verr, !.err = verr])
        ELSE IF proc.err # ErrNil
        THEN Outcome(h, v, [call EXCEPT !.execErr = proc.err, !.processCalls = 1,
                                        !.err = proc.err])
        ELSE Outcome(w.head, Put(v, Hash(block.header), proc.result),
                     [call EXCEPT !.processCalls = 1, !.produced = <<proc.result>>,
                                  !.writeCalls = 1,
                                  !.written = <<StoreArgs(block, proc.result)>>,
                                  !.err = w.err])

\* A miss path that leaves VerifyBlock out
NewMissNoVerify(h, v, block, env, call) ==
    LET proc == ProcessBlock(block, env)
        w == WriteStateAndSetHead(h, block, env)
    IN  IF proc.err # ErrNil
        THEN Outcome(h, v, [call EXCEPT !.execErr = proc.err, !.processCalls = 1,
                                        !.err = proc.err])
        ELSE Outcome(w.head, v,
                     [call EXCEPT !.processCalls = 1, !.produced = <<proc.result>>,
                                  !.writeCalls = 1,
                                  !.written = <<StoreArgs(block, proc.result)>>,
                                  !.err = w.err])

\* The block is not in api.verified: verify, execute, write.
NewMiss(h, v, block, env, call) ==
    LET verr == VerifyBlock(block, env)
        proc == ProcessBlock(block, env)
        w == WriteStateAndSetHead(h, block, env)
    IN  IF verr # ErrNil
        THEN Outcome(h, v, [call EXCEPT !.verifyErr = verr, !.err = verr])
        ELSE IF proc.err # ErrNil
        THEN Outcome(h, v, [call EXCEPT !.execErr = proc.err, !.processCalls = 1,
                                        !.err = proc.err])
        ELSE Outcome(w.head, v,
                     [call EXCEPT !.processCalls = 1, !.produced = <<proc.result>>,
                                  !.writeCalls = 1,
                                  !.written = <<StoreArgs(block, proc.result)>>,
                                  !.err = w.err])

NewOutcome(h, v, params, bls, env) ==
    LET parent == h
        call == [Begin("NewL2Block", h, v) EXCEPT !.params = <<params>>, !.bls = bls,
                                                  !.env = <<env>>]
        pb == paramsToBlock(params, bls)
    IN  IF Discontinuous(params.Number, parent)
        THEN Outcome(h, v, [call EXCEPT !.err = ErrDiscontinuous])
        ELSE IF WrongParent(params, parent)
        THEN Outcome(h, v, [call EXCEPT !.err = ErrWrongParent])
        ELSE IF pb.err # ErrNil
        THEN Outcome(h, v, [call EXCEPT !.err = pb.err, !.errIndex = pb.index])
        ELSE IF Hash(pb.block.header) \in DOMAIN v
        THEN NewHit(h, v, pb.block, v[Hash(pb.block.header)], env, call)
        ELSE NewMiss(h, v, pb.block, env, call)

----------------------------------------------------------------------------
\* What was accepted since the last successful NewL2Block: the descriptors
\* ValidateL2Block answered true for, the result of each one it executed, the result
\* behind each descriptor AssembleL2Block returned, and the executed descriptors
\* whose block AssembleL2Block sealed and stored afterwards (their map entry, under
\* the same hash, was written again); and the hashes the map held when that
\* NewL2Block was called (prev).

\* The block ValidateL2Block builds from the descriptor d (with types.BLSData{}) is
\* the block b: both are stored under the same hash.
SameBlock(d, b) == Hash(paramsToBlock(d, EmptyBLS).block.header) = Hash(b.header)

EmptyRound ==
    [validated |-> {}, executed |-> EmptyMap, assembled |-> EmptyMap, replaced |-> {},
     prev |-> {}]

RoundAfter(r, call) ==
    IF call.op = "NewL2Block" /\ call.err = ErrNil /\ call.writeCalls = 1
    THEN [EmptyRound EXCEPT !.prev = DOMAIN call.before]
    ELSE IF call.op = "ValidateL2Block" /\ call.resp = <<TRUE>>
    THEN [r EXCEPT !.validated = @ \cup {call.params[1]},
                   !.executed = IF call.processCalls = 1
                                THEN Put(@, call.params[1], call.produced[1])
                                ELSE @]
    ELSE IF call.op = "AssembleL2Block" /\ Len(call.data) = 1
    THEN [r EXCEPT !.assembled = Put(@, call.data[1], call.produced[1]),
                   !.replaced = @ \cup {d \in DOMAIN r.executed :
                                            SameBlock(d, call.produced[1].block)}]
    ELSE r

----------------------------------------------------------------------------
\* Calls served one at a time. The collaborators are asked only once the number,
\* the parent hash and the transactions have passed, so their answers are drawn
\* only for such calls.

Decodable(enc) == BadIndexes(enc) = {}

\* Whether a call with this descriptor gets past the number, parent and decode checks
Reaches(h, params) ==
    /\ ~Discontinuous(params.Number, h)
    /\ ~WrongParent(params, h)
    /\ Decodable(params.Transactions)

AssembleEnvsFor(h, number, transactions) ==
    IF ~Discontinuous(number, h) /\ Decodable(transactions)
    THEN AssembleEnvs ELSE {QuietEnv}

ValidateEnvsFor(h, params) == IF Reaches(h, params) THEN ValidateEnvs ELSE {QuietEnv}

NewEnvsFor(h, params) ==
    IF Reaches(h, params)
    THEN NewEnvs(params.Number)
    ELSE {[QuietEnv EXCEPT !.writeOk = FALSE]}

\* The descriptors a caller passes: those it composes for the head it knows, and
\* those AssembleL2Block handed out in this round. The extra bytes of a descriptor
\* are read only by paramsToBlock, after the number, the parent hash and the
\* transactions have passed, so they vary only in descriptors that get there, for
\* the blocks the store still takes.
CallerDescriptors ==
    {d \in Descriptors(head) :
         d.Extra = <<>> \/ (Reaches(head, d) /\ d.Number <= MaxHeight)}
        \cup DOMAIN round.assembled

\* A concurrent caller: where it is in its call (pc), the descriptor and signature
\* data it passed, the head it read (parent), the block it built and the execution
\* result it holds.
Procs == 1 .. NumProcs

IdleProc ==
    [pc |-> "idle", params |-> <<>>, txs |-> <<>>, bls |-> EmptyBLS,
     parent |-> GenesisBlock, block |-> <<>>, res |-> <<>>]

\* A call is served from the idle state; its record stays until the answer is
\* returned to the caller.
Idle == last.op = "none"

Apply(o) ==
    /\ Idle
    /\ Cardinality(DOMAIN o.verified) <= MaxCached
    /\ head' = o.head
    /\ verified' = o.verified
    /\ last' = [o.call EXCEPT !.round = <<round>>]
    /\ round' = RoundAfter(round, o.call)
    /\ UNCHANGED <<procs, lastWrite, commitLog>>

AssembleL2Block ==
    \E number \in Numbers(head), transactions \in TxLists :
        \E env \in AssembleEnvsFor(head, number, transactions) :
            Apply(AssembleOutcome(head, verified, number, transactions, env))

ValidateL2Block ==
    \E params \in CallerDescriptors :
        \E env \in ValidateEnvsFor(head, params) :
            Apply(ValidateOutcome(head, verified, params, env))

NewL2Block ==
    \E params \in CallerDescriptors, bls \in BLSDatas :
        \E env \in NewEnvsFor(head, params) :
            Apply(NewOutcome(head, verified, params, bls, env))

\* The answer goes back to the caller.
Return ==
    /\ ~Idle
    /\ last' = NoCall
    /\ UNCHANGED <<head, verified, round, procs, lastWrite, commitLog>>

Init ==
    /\ head = GenesisBlock
    /\ verified = EmptyMap
    /\ last = NoCall
    /\ round = EmptyRound
    /\ procs = [p \in Procs |-> IdleProc]
    /\ lastWrite = <<>>
    /\ commitLog = <<>>

Next == AssembleL2Block \/ ValidateL2Block \/ NewL2Block \/ Return

Spec == Init /\ [][Next]_vars

----------------------------------------------------------------------------
\* Calls served concurrently. The API holds no lock: each caller runs its call in
\* steps, one per access to the chain head, the map or a collaborator, and the steps
\* of different callers interleave.

\* The descriptors the concurrent callers pass: those that pass the checks against
\* the head at the time of the call.
ConcDescriptors(h) ==
    {d \in Descriptors(h) : /\ Reaches(h, d)
                            /\ Len(d.Transactions) <= MaxTxPerBlock
                            /\ d.Extra = <<>>}

ConcTxLists == {t \in TxLists : Decodable(t) /\ Len(t) <= MaxTxPerBlock}

\* One executor run is enough to tell the callers' results apart from none.
ConcEnvs(envs) == {env \in envs : env.run = 1 /\ env.extra = <<>>}

At(p, pc) == procs[p].pc = pc

Goto(p, loc) == procs' = [procs EXCEPT ![p] = loc]

Shared == <<head, verified>>
Sequential == <<last, round>>
WriteLog == <<lastWrite, commitLog>>

\* The map is a plain Go map shared without a lock. A map insert that overlaps
\* another caller's insert or lookup, and a lookup that overlaps another caller's
\* insert, is a data race: the two accesses take effect in either order, or the
\* runtime stops the process ("fatal error: concurrent map writes" / "concurrent map
\* read and map write"), and then no call returns.
MapWritePcs == {"validateStore", "assembleStore"}
MapReadPcs == {"validateLookup", "newLookup"}

\* Another caller is at a map access that can overlap the insert of caller p
WriteRace(p) ==
    \E q \in Procs \ {p} : procs[q].pc \in MapWritePcs \cup MapReadPcs

\* Another caller is at a map insert that can overlap the lookup of caller p
ReadRace(p) == \E q \in Procs \ {p} : procs[q].pc \in MapWritePcs

AbortedProc == [IdleProc EXCEPT !.pc = "aborted"]

\* The runtime stops the process: every call in flight is gone
Abort ==
    /\ procs' = [q \in Procs |-> AbortedProc]
    /\ UNCHANGED <<Shared, Sequential, WriteLog>>

\* api.verified[hash] = executionResult{...} by caller p
MapInsert(p) ==
    \/ /\ verified' = Put(verified, Hash(procs[p].block[1].header), procs[p].res[1])
       /\ Goto(p, IdleProc)
       /\ UNCHANGED <<head, Sequential, WriteLog>>
    \/ WriteRace(p) /\ Abort

\* A store write by caller p: the head moves if the store accepts the block.
StoreWrite(p, w, hit) ==
    /\ head' = w.head
    /\ lastWrite' = <<[checked |-> Hash(procs[p].parent.header),
                       found |-> Hash(head.header),
                       hit |-> hit, ok |-> w.err = ErrNil]>>
    /\ commitLog' = IF w.err = ErrNil
                    THEN Append(commitLog, Hash(procs[p].parent.header))
                    ELSE commitLog

\* NewL2Block, lines 161-170: read the head, check number and parent hash
NewCheck(p) ==
    /\ At(p, "idle")
    /\ \E params \in ConcDescriptors(head), bls \in {EmptyBLS} :
          IF Discontinuous(params.Number, head) \/ WrongParent(params, head)
          THEN Goto(p, IdleProc)
          ELSE Goto(p, [IdleProc EXCEPT !.pc = "newLookup", !.params = <<params>>,
                                        !.bls = bls, !.parent = head])
    /\ UNCHANGED <<Shared, Sequential, WriteLog>>

\* NewL2Block, lines 172-177: build the block and look it up in the map
NewLookup(p) ==
    /\ At(p, "newLookup")
    /\ LET pb == paramsToBlock(procs[p].params[1], procs[p].bls)
           hash == Hash(pb.block.header)
       IN  \/ /\ IF pb.err # ErrNil
                 THEN Goto(p, IdleProc)
                 ELSE IF hash \in DOMAIN verified
                 THEN Goto(p, [procs[p] EXCEPT !.pc = "newWriteHit",
                                               !.block = <<pb.block>>,
                                               !.res = <<verified[hash]>>])
                 ELSE Goto(p, [procs[p] EXCEPT !.pc = "newExecute",
                                               !.block = <<pb.block>>])
              /\ UNCHANGED <<Shared, Sequential, WriteLog>>
           \/ pb.err = ErrNil /\ ReadRace(p) /\ Abort

\* NewL2Block, line 179: write the stored result
NewWriteHit(p) ==
    /\ At(p, "newWriteHit")
    /\ \E ok \in WriteAnswers(procs[p].block[1].header.Number) :
          LET w == WriteStateAndSetHead(head, procs[p].block[1],
                                        [QuietEnv EXCEPT !.writeOk = ok])
          IN  /\ StoreWrite(p, w, TRUE)
              /\ IF w.err = ErrNil
                 THEN Goto(p, [procs[p] EXCEPT !.pc = "newClear"])
                 ELSE Goto(p, IdleProc)
    /\ UNCHANGED <<verified, Sequential>>

\* NewL2Block, lines 180-183: replace the map by an empty one
NewClear(p) ==
    /\ At(p, "newClear")
    /\ verified' = EmptyMap
    /\ Goto(p, IdleProc)
    /\ UNCHANGED <<head, Sequential, WriteLog>>

\* NewL2Block, lines 186-194: verify and execute the block
NewExecute(p) ==
    /\ At(p, "newExecute")
    /\ \E env \in ConcEnvs(NewEnvs(procs[p].block[1].header.Number)) :
          LET verr == VerifyBlock(procs[p].block[1], env)
              proc == ProcessBlock(procs[p].block[1], env)
          IN  IF verr # ErrNil \/ proc.err # ErrNil
              THEN Goto(p, IdleProc)
              ELSE Goto(p, [procs[p] EXCEPT !.pc = "newWriteMiss",
                                            !.res = <<proc.result>>])
    /\ UNCHANGED <<Shared, Sequential, WriteLog>>

\* NewL2Block, line 195: write the new result
NewWriteMiss(p) ==
    /\ At(p, "newWriteMiss")
    /\ \E ok \in WriteAnswers(procs[p].block[1].header.Number) :
          LET w == WriteStateAndSetHead(head, procs[p].block[1],
                                        [QuietEnv EXCEPT !.writeOk = ok])
          IN  StoreWrite(p, w, FALSE)
    /\ Goto(p, IdleProc)
    /\ UNCHANGED <<verified, Sequential>>

\* ValidateL2Block, lines 106-115: read the head, check number and parent hash
ValidateCheck(p) ==
    /\ At(p, "idle")
    /\ \E params \in ConcDescriptors(head) :
          IF Discontinuous(params.Number, head) \/ WrongParent(params, head)
          THEN Goto(p, IdleProc)
          ELSE Goto(p, [IdleProc EXCEPT !.pc = "validateLookup",
                                        !.params = <<params>>, !.parent = head])
    /\ UNCHANGED <<Shared, Sequential, WriteLog>>

\* ValidateL2Block, lines 117-126: build the block and look it up in the map
ValidateLookup(p) ==
    /\ At(p, "validateLookup")
    /\ LET pb == paramsToBlock(procs[p].params[1], EmptyBLS)
       IN  \/ /\ IF pb.err # ErrNil \/ Hash(pb.block.header) \in DOMAIN verified
                 THEN Goto(p, IdleProc)
                 ELSE Goto(p, [procs[p] EXCEPT !.pc = "validateExecute",
                                               !.block = <<pb.block>>])
              /\ UNCHANGED <<Shared, Sequential, WriteLog>>
           \/ pb.err = ErrNil /\ ReadRace(p) /\ Abort

\* ValidateL2Block, lines 128-147: verify, validate the body, execute
ValidateExecute(p) ==
    /\ At(p, "validateExecute")
    /\ \E env \in ConcEnvs(ValidateEnvs) :
          LET verr == VerifyBlock(procs[p].block[1], env)
              berr == ValidateBody(procs[p].block[1], env)
              proc == ProcessBlock(procs[p].block[1], env)
          IN  IF verr # ErrNil \/ berr # ErrNil \/ proc.err # ErrNil
              THEN Goto(p, IdleProc)
              ELSE Goto(p, [procs[p] EXCEPT !.pc = "validateStore",
                                            !.res = <<proc.result>>])
    /\ UNCHANGED <<Shared, Sequential, WriteLog>>

\* ValidateL2Block, lines 149-154: store the result in the map
ValidateStore(p) ==
    /\ At(p, "validateStore")
    /\ MapInsert(p)

\* AssembleL2Block, lines 58-71: read the head, check the number, decode
AssembleCheck(p) ==
    /\ At(p, "idle")
    /\ \E transactions \in ConcTxLists :
          LET dec == DecodeLoop(transactions)
          IN  Goto(p, [IdleProc EXCEPT !.pc = "assembleSeal", !.txs = dec.txs,
                                       !.parent = head])
    /\ UNCHANGED <<Shared, Sequential, WriteLog>>

\* AssembleL2Block, lines 73-82: ask the miner for the sealing block
AssembleSeal(p) ==
    /\ At(p, "assembleSeal")
    /\ \E env \in ConcEnvs(AssembleEnvs) :
          LET seal == GetSealingBlockAndState(procs[p].parent, env.now, procs[p].txs, env)
          IN  IF seal.err # ErrNil \/ seal.block.header.TxHash = EmptyRootHash
              THEN Goto(p, IdleProc)
              ELSE Goto(p, [procs[p] EXCEPT !.pc = "assembleStore",
                                            !.block = <<seal.block>>,
                                            !.res = <<seal.result>>])
    /\ UNCHANGED <<Shared, Sequential, WriteLog>>

\* AssembleL2Block, lines 83-88: store the result in the map
AssembleStore(p) ==
    /\ At(p, "assembleStore")
    /\ MapInsert(p)

NextConc ==
    \E p \in Procs :
        \/ NewCheck(p) \/ NewLookup(p) \/ NewWriteHit(p) \/ NewClear(p)
        \/ NewExecute(p) \/ NewWriteMiss(p)
        \/ ValidateCheck(p) \/ ValidateLookup(p) \/ ValidateExecute(p)
        \/ ValidateStore(p)
        \/ AssembleCheck(p) \/ AssembleSeal(p) \/ AssembleStore(p)

SpecConc == Init /\ [][NextConc]_vars

----------------------------------------------------------------------------
\* Properties. They read the record of the call being answered (last), the head and
\* map that call found (last.parent, last.before), the round as it stood at the call
\* (last.round[1]), and the head and map the call left (head, verified).

IsValidate == last.op = "ValidateL2Block"
IsNew == last.op = "NewL2Block"
IsAssemble == last.op = "AssembleL2Block"

LastParams == last.params[1]
RoundAtCall == last.round[1]

NothingChanged == head = last.parent /\ verified = last.before

NumberIsNext == LastParams.Number = last.parent.header.Number + 1
ParentIsHead == LastParams.ParentHash = Hash(last.parent.header)
AllDecode == \A i \in 1 .. Len(LastParams.Transactions) : LastParams.Transactions[i][1] = "enc"

\* The head is the block the descriptor and the signature data of the call describe.
HeadIsLastBlock ==
    /\ head.header.Number = LastParams.Number
    /\ head.header.ParentHash = LastParams.ParentHash
    /\ head.header.Time = LastParams.Timestamp
    /\ head.header.Root = LastParams.StateRoot
    /\ head.header.BLSData = last.bls
    /\ encodeTransactions(head.txs) = LastParams.Transactions

\* C1: Linearity. A ValidateL2Block or NewL2Block call whose descriptor's number is
\* not the head's number + 1 returns the discontinuity error, changes neither the
\* head nor the map, and calls neither the executor nor the store.
C1_Linearity ==
    ((IsValidate \/ IsNew) /\ ~NumberIsNext)
        => /\ last.err = ErrDiscontinuous
           /\ last.resp = <<>>
           /\ NothingChanged
           /\ last.sealCalls = 0 /\ last.processCalls = 0 /\ last.writeCalls = 0

C1_Witness ==
    /\ IsNew /\ ~NumberIsNext /\ ParentIsHead /\ AllDecode
    /\ last.err = ErrDiscontinuous
    /\ DOMAIN verified # {}

\* C2: Parent binding. A ValidateL2Block or NewL2Block call whose descriptor has the
\* next number but a parent hash other than the head's hash returns the
\* parent-mismatch error and changes neither the head nor the map.
C2_ParentBinding ==
    ((IsValidate \/ IsNew) /\ NumberIsNext /\ ~ParentIsHead)
        => /\ last.err = ErrWrongParent
           /\ last.resp = <<>>
           /\ NothingChanged

C2_Witness ==
    /\ IsValidate /\ NumberIsNext /\ ~ParentIsHead /\ AllDecode
    /\ last.err = ErrWrongParent
    /\ DOMAIN verified # {}

\* C3: Cache cleared after any successful commit. Right after a NewL2Block call that
\* returns success, on the hit path or the miss path, the map is empty.
C3_ClearedAfterCommit ==
    (IsNew /\ last.err = ErrNil) => DOMAIN verified = {}

\* C4 as claimed: when ValidateL2Block answered true for D by executing it and no
\* commit succeeded since, NewL2Block for D, whatever signature data comes with it,
\* does not call the executor and hands the store the state and receipts of that
\* validation.
C4_ValidateThenCommit ==
    (IsNew /\ LastParams \in DOMAIN RoundAtCall.executed)
        => /\ last.processCalls = 0
           /\ Len(last.written) = 1
           /\ last.written[1].state = RoundAtCall.executed[LastParams].state
           /\ last.written[1].receipts = RoundAtCall.executed[LastParams].receipts

\* C4 amended: the same, for a NewL2Block call with empty signature data, when no
\* AssembleL2Block call sealed and stored the block of D (a block with the hash of
\* D's block) after the validation.
C4_ValidateThenCommitEmptyBLS ==
    (/\ IsNew
     /\ LastParams \in DOMAIN RoundAtCall.executed
     /\ LastParams \notin RoundAtCall.replaced
     /\ last.bls = EmptyBLS)
        => /\ last.processCalls = 0
           /\ Len(last.written) = 1
           /\ last.written[1].state = RoundAtCall.executed[LastParams].state
           /\ last.written[1].receipts = RoundAtCall.executed[LastParams].receipts

C4_Witness ==
    /\ IsNew
    /\ LastParams \in DOMAIN RoundAtCall.executed
    /\ LastParams \notin RoundAtCall.replaced
    /\ last.bls = EmptyBLS
    /\ last.err = ErrNil
    /\ HeadIsLastBlock

\* C5 as claimed: after AssembleL2Block returned D and with no commit since,
\* NewL2Block for D does not call ProcessBlock, calls the store, returns success, and
\* the head is the assembled block.
C5_AssembleThenCommit ==
    (IsNew /\ LastParams \in DOMAIN RoundAtCall.assembled)
        => /\ last.processCalls = 0
           /\ last.writeCalls = 1
           /\ last.err = ErrNil
           /\ head = RoundAtCall.assembled[LastParams].block

\* C5 amended: when the assembled header carries no extra data (the descriptor
\* AssembleL2Block returns leaves Extra out) and NewL2Block comes with empty
\* signature data, NewL2Block for D does not call ProcessBlock and calls only the
\* store, with the assembled result; it returns what the store returns: on success
\* the head is the assembled block, on a store error that error comes back and the
\* head stays.
C5_AssembleThenCommitEmptyBLS ==
    (/\ IsNew
     /\ LastParams \in DOMAIN RoundAtCall.assembled
     /\ RoundAtCall.assembled[LastParams].block.header.Extra = <<>>
     /\ last.bls = EmptyBLS)
        => /\ last.processCalls = 0 /\ last.sealCalls = 0
           /\ last.writeCalls = 1
           /\ last.written[1].state = RoundAtCall.assembled[LastParams].state
           /\ last.err \in {ErrNil, ErrStore}
           /\ last.err = ErrNil => head = RoundAtCall.assembled[LastParams].block
           /\ last.err = ErrStore => head = last.parent

C5_Witness ==
    /\ IsNew /\ LastParams \in DOMAIN RoundAtCall.assembled /\ last.bls = EmptyBLS
    /\ RoundAtCall.assembled[LastParams].block.header.Extra = <<>>
    /\ last.err = ErrNil
    /\ head = RoundAtCall.assembled[LastParams].block
    /\ head # last.parent

\* C6: Idempotent validation. When ValidateL2Block answered true for D and no commit
\* succeeded since, another ValidateL2Block for D answers true without calling the
\* executor and without changing the map.
C6_IdempotentValidation ==
    (IsValidate /\ LastParams \in RoundAtCall.validated)
        => /\ last.err = ErrNil
           /\ last.resp = <<TRUE>>
           /\ last.processCalls = 0 /\ last.sealCalls = 0
           /\ verified = last.before

C6_Witness ==
    /\ IsValidate /\ LastParams \in RoundAtCall.validated
    /\ LastParams \in DOMAIN RoundAtCall.executed
    /\ last.resp = <<TRUE>>

\* C7 as claimed: whenever the executor fails during a call, the call returns an
\* error, no response, and the map and head are unchanged.
C7_ExecutorFaultIsError ==
    (last.execErr # ErrNil)
        => /\ last.err # ErrNil
           /\ last.resp = <<>> /\ last.data = <<>>
           /\ NothingChanged

\* C7 amended: an executor failure leaves the map and head unchanged; AssembleL2Block
\* and NewL2Block return it as an error, ValidateL2Block answers valid=false with no
\* error.
C7_ExecutorFaultByCall ==
    (last.execErr # ErrNil)
        => /\ NothingChanged
           /\ last.writeCalls = 0
           /\ (IsAssemble \/ IsNew)
                => last.err = last.execErr /\ last.resp = <<>> /\ last.data = <<>>
           /\ IsValidate => last.err = ErrNil /\ last.resp = <<FALSE>>

C7_Witness ==
    /\ IsNew /\ last.execErr # ErrNil /\ last.processCalls = 1
    /\ last.err = ErrExecutor
    /\ DOMAIN verified # {}

\* C8: Boolean-vs-error duality. For a descriptor past the number, parent and decode
\* checks and not in the map, a failure of the engine's header verification or of the
\* transaction-count policy makes ValidateL2Block answer valid=false with no error
\* and NewL2Block return an error; head and map are unchanged and the executor and
\* the store are not called.
C8_Duality ==
    (/\ IsValidate \/ IsNew
     /\ NumberIsNext /\ ParentIsHead /\ AllDecode /\ ~last.hit
     /\ \/ last.verifyErr # ErrNil
        \/ Len(LastParams.Transactions) > MaxTxPerBlock)
        => /\ IsValidate => last.err = ErrNil /\ last.resp = <<FALSE>>
           /\ IsNew => last.err \in {ErrVerifyHeader, ErrTxCount}
           /\ NothingChanged
           /\ last.sealCalls = 0 /\ last.processCalls = 0 /\ last.writeCalls = 0

C8_Witness ==
    /\ IsNew
    /\ NumberIsNext /\ ParentIsHead /\ AllDecode /\ ~last.hit
    /\ Len(LastParams.Transactions) > MaxTxPerBlock
    /\ last.err = ErrTxCount
    /\ DOMAIN verified # {}

\* C9: NewL2Block returns success exactly when the store wrote the block and the head
\* is the descriptor's block; on every failure it returns an error and the head and
\* the map are unchanged (a store failure on the hit path does not clear the map).
C9_CommitAllOrNothing ==
    IsNew
        => /\ last.err = ErrNil =>
                /\ last.writeCalls = 1
                /\ HeadIsLastBlock
                /\ head = last.written[1].block
           /\ last.err # ErrNil =>
                /\ NothingChanged
                /\ last.err \in {ErrDiscontinuous, ErrWrongParent, ErrDecode,
                                 ErrVerifyHeader, ErrTxCount, ErrExecutor, ErrStore}
           /\ head # last.parent => last.err = ErrNil

C9_Witness ==
    /\ IsNew /\ last.hit /\ last.writeCalls = 1
    /\ last.err = ErrStore
    /\ DOMAIN verified # {}

\* C10: Head-linearity under concurrency. When calls interleave, the head a
\* NewL2Block call checked its descriptor against is still the head when that call
\* writes the block, so no two calls that checked the same head both commit.
C10_HeadStableUntilWrite ==
    /\ \A i \in 1 .. Len(lastWrite) : lastWrite[i].found = lastWrite[i].checked
    /\ \A i, j \in 1 .. Len(commitLog) : commitLog[i] = commitLog[j] => i = j

\* C11: The clear of the map is atomic with respect to concurrent inserts. Once every
\* caller has returned and the latest store write was a successful commit on the hit
\* path (whose clear has then run), the map holds no entry built against an earlier
\* head: every entry's block has the head as its parent.
AllReturned == \A p \in Procs : procs[p].pc = "idle"

C11_NoInsertAfterClear ==
    (/\ AllReturned
     /\ Len(lastWrite) = 1
     /\ lastWrite[1].hit /\ lastWrite[1].ok)
        => \A k \in DOMAIN verified :
              verified[k].block.header.ParentHash = Hash(head.header)

\* The descriptor of the call was in the map when the last successful NewL2Block was
\* called, names the head's parent as its parent and the head's number as its
\* number, and is not the block that was committed.
LastHash == Hash(paramsToBlock(LastParams, EmptyBLS).block.header)

StaleCandidate ==
    /\ IsValidate
    /\ AllDecode
    /\ LastHash \in RoundAtCall.prev
    /\ LastParams.ParentHash = last.parent.header.ParentHash
    /\ LastParams.Number = last.parent.header.Number
    /\ LastHash # Hash(last.parent.header)

\* C12 as claimed: after a successful NewL2Block, ValidateL2Block of another candidate
\* that was in the map before the commit and still names the old parent returns the
\* parent-mismatch error and no answer.
C12_StaleCandidateWrongParent ==
    StaleCandidate => last.err = ErrWrongParent /\ last.resp = <<>>

\* C12 amended: such a call returns the discontinuity error (the number is checked
\* before the parent hash), gives no answer, does not look the block up in the map,
\* executes nothing and changes nothing.
C12_StaleCandidateDiscontinuous ==
    StaleCandidate
        => /\ last.err = ErrDiscontinuous
           /\ last.resp = <<>>
           /\ ~last.hit
           /\ last.processCalls = 0
           /\ NothingChanged

C12_Witness ==
    /\ StaleCandidate
    /\ last.err = ErrDiscontinuous
    /\ LastHash \in DOMAIN verified

\* C13: AssembleL2Block and ValidateL2Block, whatever their outcome, leave the head
\* as it was, do not call the store, keep every entry of the map and add at most
\* one; the head differs from the one a call found only after a successful
\* NewL2Block.
C13_OnlyCommitMovesHead ==
    /\ (IsAssemble \/ IsValidate)
          => /\ head = last.parent
             /\ last.writeCalls = 0 /\ last.written = <<>>
             /\ DOMAIN last.before \subseteq DOMAIN verified
             /\ Cardinality(DOMAIN verified \ DOMAIN last.before) <= 1
    /\ (~Idle /\ head # last.parent) => IsNew /\ last.err = ErrNil

C13_Witness ==
    /\ IsValidate /\ last.resp = <<TRUE>> /\ last.processCalls = 1
    /\ DOMAIN last.before # {}
    /\ Cardinality(DOMAIN verified \ DOMAIN last.before) = 1
    /\ head = last.parent

\* C14: Empty-block no-op. When AssembleL2Block is called with the next number and
\* the miner returns a block without transactions, the call returns no descriptor
\* and no error and leaves the map and the head as they were.
C14_EmptyBlockNoOp ==
    (/\ IsAssemble
     /\ last.number = last.parent.header.Number + 1
     /\ Len(last.sealed) = 1
     /\ last.sealed[1].txs = <<>>)
        => /\ last.err = ErrNil
           /\ last.data = <<>>
           /\ NothingChanged

C14_Witness ==
    /\ IsAssemble
    /\ last.number = last.parent.header.Number + 1
    /\ Len(last.sealed) = 1 /\ last.sealed[1].txs = <<>>
    /\ last.txs # <<>>
    /\ last.err = ErrNil /\ last.data = <<>>
    /\ DOMAIN verified # {}

\* The transaction at position i (counted from 1) of the AssembleL2Block call is the
\* first one that does not decode.
FirstBadAt(i) ==
    /\ i \in 1 .. Len(last.txs)
    /\ last.txs[i][1] # "enc"
    /\ \A j \in 1 .. i - 1 : last.txs[j][1] = "enc"

\* C15: Malformed transaction in AssembleL2Block. With the next number and the first
\* undecodable transaction at index i (counted from 0), the call returns the
\* "transaction i is not valid" error, does not call the executor and leaves the map
\* and the head as they were.
C15_MalformedTransaction ==
    \A i \in 1 .. MaxTxs :
        (/\ IsAssemble
         /\ last.number = last.parent.header.Number + 1
         /\ FirstBadAt(i))
            => /\ last.err = ErrTxNotValid
               /\ last.errIndex = i - 1
               /\ last.data = <<>>
               /\ last.sealCalls = 0 /\ last.processCalls = 0
               /\ NothingChanged

C15_Witness ==
    /\ IsAssemble
    /\ last.number = last.parent.header.Number + 1
    /\ FirstBadAt(2)
    /\ last.err = ErrTxNotValid /\ last.errIndex = 1
    /\ DOMAIN verified # {}

\* The call being answered stored its result under key k and left every other entry
\* of the map as it was.
StoredUnder(k) ==
    /\ Len(last.produced) = 1
    /\ k = Hash(last.produced[1].block.header)
    /\ DOMAIN verified = DOMAIN last.before \cup {k}
    /\ verified[k] = last.produced[1]
    /\ \A j \in DOMAIN last.before \ {k} : verified[j] = last.before[j]

Accepted ==
    \/ IsAssemble /\ last.err = ErrNil /\ Len(last.data) = 1
    \/ IsValidate /\ last.err = ErrNil /\ last.resp = <<TRUE>>

Discarded == IsNew /\ last.err = ErrNil /\ verified = EmptyMap

\* C16 as claimed: every change of the map is the insertion of exactly one new entry
\* by a successful AssembleL2Block or ValidateL2Block, or the discarding of the
\* whole map by a successful NewL2Block; no entry is removed on its own and
\* NewL2Block never inserts.
C16_InsertOneOrDiscardAll ==
    (~Idle /\ verified # last.before)
        => \/ Accepted /\ \E k \in DOMAIN verified \ DOMAIN last.before : StoredUnder(k)
           \/ Discarded

\* C16 amended: every change of the map is the assignment of exactly one key by a
\* successful AssembleL2Block or ValidateL2Block - a new entry, or for
\* AssembleL2Block the replacement of the entry already stored under the hash of
\* the block it sealed - or the discarding of the whole map by a successful
\* NewL2Block; no entry is removed on its own and NewL2Block never inserts.
C16_AssignOneOrDiscardAll ==
    /\ (~Idle /\ verified # last.before)
          => \/ /\ Accepted
                /\ \E k \in DOMAIN verified :
                      StoredUnder(k) /\ (k \in DOMAIN last.before => IsAssemble)
             \/ Discarded
    /\ IsNew => verified = last.before \/ verified = EmptyMap
    /\ ~Idle => DOMAIN last.before \subseteq DOMAIN verified \/ verified = EmptyMap

C16_Witness ==
    /\ IsAssemble /\ Len(last.data) = 1
    /\ verified # last.before
    /\ DOMAIN verified = DOMAIN last.before

\* C17: Order of the shared preamble. In ValidateL2Block and NewL2Block the number
\* is checked first, the parent hash second, and the block is built (transactions
\* decoded, map looked up) only after both pass: a wrong number gives the
\* discontinuity error whatever the parent hash and the transactions are, a wrong
\* parent hash with the next number gives the parent-mismatch error whatever the
\* transactions are, and a decode error, a map hit, a verification or an execution
\* happen only with the next number and the head's hash as parent.
C17_PreambleOrder ==
    (IsValidate \/ IsNew)
        => /\ ~NumberIsNext => last.err = ErrDiscontinuous
           /\ (NumberIsNext /\ ~ParentIsHead) => last.err = ErrWrongParent
           /\ (\/ last.err = ErrDecode
               \/ last.hit
               \/ last.verifyErr # ErrNil \/ last.bodyErr # ErrNil
               \/ last.processCalls > 0 \/ last.writeCalls > 0)
                 => NumberIsNext /\ ParentIsHead
           /\ (NumberIsNext /\ ParentIsHead /\ ~AllDecode) => last.err = ErrDecode

C17_Witness ==
    /\ IsValidate
    /\ NumberIsNext /\ ~ParentIsHead /\ ~AllDecode
    /\ last.err = ErrWrongParent
    /\ DOMAIN verified # {}

\* C18: Freshness of the map. With calls served one at a time, in every reachable
\* state every entry of the map is stored under the hash of its own block, and that
\* block has the head's number + 1 and the head's hash as parent hash.
C18_CacheFresh ==
    \A k \in DOMAIN verified :
        /\ k = Hash(verified[k].block.header)
        /\ verified[k].block.header.Number = head.header.Number + 1
        /\ verified[k].block.header.ParentHash = Hash(head.header)

\* C19: Linearity of commits. With calls served one at a time, a successful
\* NewL2Block leaves a head whose number is the old head's number + 1 and whose
\* parent hash is the old head's hash; every call leaves the head as it was or
\* advanced in that way, so the head's number never decreases and never skips.
C19_CommitAdvancesByOne ==
    /\ (IsNew /\ last.err = ErrNil)
          => /\ head.header.Number = last.parent.header.Number + 1
             /\ head.header.ParentHash = Hash(last.parent.header)
    /\ ~Idle => \/ head = last.parent
                \/ /\ head.header.Number = last.parent.header.Number + 1
                   /\ head.header.ParentHash = Hash(last.parent.header)

C19_Witness ==
    /\ IsNew /\ last.err = ErrNil /\ ~last.hit
    /\ last.bls # EmptyBLS
    /\ head.header.Number = last.parent.header.Number + 1
    /\ head.header.ParentHash = Hash(last.parent.header)

\* What ValidateL2Block answers for the descriptor of the NewL2Block call being
\* answered, called in the state that call found, the collaborators answering as
\* they do for that call.
ValidateInstead ==
    ValidateOutcome(last.parent, last.before, LastParams, last.env[1]).call

\* C20 as claimed: whenever NewL2Block with empty signature data succeeds,
\* ValidateL2Block of the same descriptor from the same state answers valid=true.
C20_CommitImpliesValid ==
    (IsNew /\ last.err = ErrNil /\ last.bls = EmptyBLS)
        => ValidateInstead.err = ErrNil /\ ValidateInstead.resp = <<TRUE>>

\* C20 amended: the same, when the body validator accepts the block (NewL2Block does
\* not ask it): the committed block was in the map, or passed the engine's header
\* verification, the transaction-count policy and the execution.
C20_CommitImpliesValidBody ==
    (/\ IsNew /\ last.err = ErrNil /\ last.bls = EmptyBLS
     /\ last.env[1].bodyOk)
        => /\ ValidateInstead.err = ErrNil /\ ValidateInstead.resp = <<TRUE>>
           /\ \/ last.hit
              \/ /\ last.env[1].engineOk
                 /\ Len(LastParams.Transactions) <= MaxTxPerBlock
                 /\ last.processCalls = 1 /\ last.execErr = ErrNil

C20_Witness ==
    /\ IsNew /\ last.err = ErrNil /\ last.bls = EmptyBLS
    /\ last.env[1].bodyOk
    /\ ~last.hit /\ last.processCalls = 1
    /\ ValidateInstead.resp = <<TRUE>> /\ ValidateInstead.processCalls = 1
    /\ head # last.parent

====
